---------------------------- MODULE Spec2Model ----------------------------
(***************************************************************************)
(* scriptworker/worker.py: the task-lifecycle orchestrator (RunTasks), the *)
(* run_tasks / async_main wrapper and the run loop of main().              *)
(*                                                                         *)
(* The model follows asyncio's single-threaded scheduling: a coroutine     *)
(* runs without interleaving from one suspension point (an await of a      *)
(* pending operation) to the next.  Every action below is one such         *)
(* segment of the foreground coroutine, one run of the _handle_sigterm     *)
(* task, or one event of the environment (a signal, a future finishing,    *)
(* the task subprocess exiting).  The value of pc names the statement the  *)
(* foreground coroutine is at; the values listed in Suspended are the      *)
(* awaits at which the event loop may run another task.                    *)
(***************************************************************************)
EXTENDS Integers, FiniteSets, TLC

\* ------------------------------------------------------------------ bounds
MaxTasks == 2      \* task descriptors one claim call returns, at most
MaxIter == 2       \* iterations of main's while loop that are started
MaxSignals == 2    \* SIGTERMs delivered to the process
MaxCancels == 2    \* cancel() calls of a caller that drives one token itself

Tasks == 1..MaxTasks

\* --------------------------------------------------------------- statuses
\* scriptworker.constants.STATUSES, restricted to the tiers the orchestrator
\* names, ranked as the severity order success < task failure <
\* intermittent < worker shutdown.
STATUSES ==
    [n \in {"success", "task-failure", "intermittent-task", "worker-shutdown"} |->
        CASE n = "success" -> 0
          [] n = "task-failure" -> 1
          [] n = "intermittent-task" -> 2
          [] n = "worker-shutdown" -> 3]

StatusCodes == {STATUSES[n] : n \in DOMAIN STATUSES}
FailureCodes == StatusCodes \ {STATUSES["success"]}

\* Python's None where an int status is expected.
None == -1

\* scriptworker.task.worst_level: the more severe of two statuses.
worst_level(level1, level2) == IF level1 > level2 THEN level1 ELSE level2

\* ------------------------------------------------------------- exceptions
NoExc == [type |-> "none", code |-> 0]
OkExc == [type |-> "ok", code |-> 0]
CancelledError == [type |-> "CancelledError", code |-> 0]
UnexpectedError == [type |-> "Exception", code |-> 0]
ClientError == [type |-> "ClientError", code |-> 0]
ScriptWorkerException(c) == [type |-> "ScriptWorkerException", code |-> c]
CoTError(c) == [type |-> "CoTError", code |-> c]

\* CoTError is a subclass of ScriptWorkerException.
IsScriptWorkerException(e) == e.type \in {"ScriptWorkerException", "CoTError"}

\* ------------------------------------------------------------------ state
VARIABLES
    done,          \* main: the nonlocal flag set by _handle_sigterm
    mainPc,        \* main: "loop" | "scheduled" | "run" | "exited" | "fatal" | "harness"
    iter,          \* number of run_tasks calls so far (the token's identity)
    sigSent,       \* SIGTERMs delivered so far
    sigQueued,     \* _handle_sigterm tasks scheduled and not yet run
    running_tasks, \* context.running_tasks: 0 for None, else the token's iter
    verify_cot,    \* context.config['verify_chain_of_trust']
    is_cancelled,  \* RunTasks.is_cancelled
    future,        \* RunTasks.future
    task_process,  \* RunTasks.task_process: 0 for None, else the task it runs
    cancelCalls,   \* cancel() calls on the current token
    pc,            \* position of the coroutine run_tasks -> invoke
    tasks,         \* len(tasks['tasks']) of the claim result
    cur,           \* index of task_defn in the for loop
    status,        \* invoke's local status
    drStatus,      \* do_run_task's local status
    exc,           \* the exception that left invoke
    result,        \* the value invoke returned
    claims,        \* claim_work calls started
    reclaim,       \* reclaim_fut of each task: "none" | "running" | "cancelled"
    rcCancels,     \* reclaim_fut.cancel() calls per task
    completed,     \* complete_task calls per task
    reported,      \* status passed to the latest complete_task call
    upstatus,      \* value do_upload returned for the current task
    observed,      \* statuses seen in the stages of the current task
    cot,           \* how cancellable_verify_chain_of_trust ended for it
    cleaned,       \* cleanup(context) calls per task
    stageExc,      \* what the latest collaborator call of the current task's
                   \* execute and upload stages ended with
    procState,     \* task subprocess: "none" | "running" | "exited"
    stopCount      \* worker_shutdown_stop() calls per subprocess

mainVars == <<done, mainPc, iter, sigSent, sigQueued, running_tasks, verify_cot>>
tokenVars == <<is_cancelled, future, task_process, cancelCalls>>
coVars == <<pc, tasks, cur, status, drStatus, exc, result, claims>>
taskVars ==
    <<reclaim, rcCancels, completed, reported, upstatus, observed, cot, cleaned,
      stageExc>>
procVars == <<procState, stopCount>>
vars == <<mainVars, tokenVars, coVars, taskVars, procVars>>

NoFuture == [op |-> "none", task |-> 0, state |-> "none"]
Pending(op, t) == [op |-> op, task |-> t, state |-> "pending"]

\* The awaits at which the foreground coroutine is suspended.
Suspended ==
    {"await_claim", "await_sleep", "await_verify", "await_spawn",
     "await_proc", "await_upload", "await_complete"}

\* --------------------------------------------------------------- RunTasks
\* RunTasks.__init__, lines 98-101: the fields of a new token (primed: the
\* token made by run_tasks).
NewToken ==
    /\ is_cancelled = FALSE
    /\ future = NoFuture
    /\ task_process = 0
    /\ cancelCalls = 0

NewTokenNext ==
    /\ is_cancelled' = FALSE
    /\ future' = NoFuture
    /\ task_process' = 0
    /\ cancelCalls' = 0

\* The locals of invoke and the per-task records before the claim call.
NewIteration ==
    /\ tasks = 0 /\ cur = 0 /\ status = None /\ drStatus = None
    /\ exc = NoExc /\ result = None
    /\ reclaim = [t \in Tasks |-> "none"]
    /\ rcCancels = [t \in Tasks |-> 0]
    /\ completed = [t \in Tasks |-> 0]
    /\ reported = None
    /\ upstatus = None
    /\ observed = {}
    /\ cot = NoExc
    /\ cleaned = [t \in Tasks |-> 0]
    /\ stageExc = NoExc
    /\ procState = [t \in Tasks |-> "none"]
    /\ stopCount = [t \in Tasks |-> 0]

NewIterationNext ==
    /\ tasks' = 0 /\ cur' = 0 /\ status' = None /\ drStatus' = None
    /\ exc' = NoExc /\ result' = None
    /\ reclaim' = [t \in Tasks |-> "none"]
    /\ rcCancels' = [t \in Tasks |-> 0]
    /\ completed' = [t \in Tasks |-> 0]
    /\ reported' = None
    /\ upstatus' = None
    /\ observed' = {}
    /\ cot' = NoExc
    /\ cleaned' = [t \in Tasks |-> 0]
    /\ stageExc' = NoExc
    /\ procState' = [t \in Tasks |-> "none"]
    /\ stopCount' = [t \in Tasks |-> 0]

\* _run_cancellable, lines 130-131: refuse to start when already cancelled.
run_cancellable_off == FALSE
run_cancellable_check == is_cancelled

\* cancellable_verify_chain_of_trust, line 139.
verify_abort_generic == CoTError(STATUSES["task-failure"])
verify_abort_exception == CoTError(STATUSES["worker-shutdown"])

\* cancellable_verify_chain_of_trust, lines 141-142.
verify_entry_check == is_cancelled

\* cancellable_verify_chain_of_trust, lines 144-147: what leaves the call when
\* e is raised by _run_cancellable.
cancellable_verify_raw(e) == e
cancellable_verify_swallow(e) == IF e.type = "CancelledError" THEN OkExc ELSE e
cancellable_verify_except(e) ==
    IF e.type = "CancelledError" THEN verify_abort_exception ELSE e

\* to_cancellable_process, line 152.
adopt_unchecked == FALSE
adopt_check == is_cancelled

\* Future.cancel(): only a pending future changes.  The wrapped coroutine is
\* taken not to swallow the CancelledError thrown into it; a call that ends
\* although shutdown was requested is the future that is done before the
\* awaiting coroutine resumes.
future_cancel(f) == IF f.state = "pending" THEN [f EXCEPT !.state = "cancelled"] ELSE f

\* The stop requests cancel() sends: one to the registered subprocess.
cancel_stops(sc) ==
    IF task_process # 0 THEN [sc EXCEPT ![task_process] = @ + 1] ELSE sc

\* RunTasks.cancel.  The call runs without suspension up to the await of
\* worker_shutdown_stop, whose request is made when it is called.
cancel_toggle ==
    /\ is_cancelled' = ~is_cancelled
    /\ future' = future_cancel(future)
    /\ stopCount' = cancel_stops(stopCount)
    /\ cancelCalls' = cancelCalls + 1
    /\ UNCHANGED task_process
cancel ==
    /\ is_cancelled' = TRUE
    /\ future' = future_cancel(future)
    /\ stopCount' = cancel_stops(stopCount)
    /\ cancelCalls' = cancelCalls + 1
    /\ UNCHANGED task_process

\* invoke, lines 126-127, and what is not caught there.
InvokeReraise(e) == pc' = "raised" /\ exc' = e /\ result' = result
InvokeRaise(e) ==
    IF e.type = "CancelledError"
        THEN pc' = "returned" /\ result' = None /\ exc' = exc
        ELSE pc' = "raised" /\ exc' = e /\ result' = result

Observe(x) == observed \cup {x}

\* do_run_task, lines 57-59: the exceptions its first except clause absorbs.
do_run_task_catches_all(e) == e.type # "CancelledError"
do_run_task_catches(e) == IsScriptWorkerException(e)

\* invoke, line 119: the status variable takes what do_run_task returned
\* (prev is the value it held from the task before).
invoke_accumulate(prev, s) == IF prev = None THEN s ELSE worst_level(prev, s)
invoke_assign(prev, s) == s

\* do_run_task, lines 57-63: e left the try block while status was s
\* (e = OkExc: the block ended).  Returning leads to invoke's line 120.
DoRunTaskEnd(s, e) ==
    IF e.type = "ok"
        THEN /\ status' = invoke_assign(status, s) /\ drStatus' = None
             /\ pc' = "do_upload"
             /\ observed' = observed
             /\ UNCHANGED <<exc, result>>
    ELSE IF do_run_task_catches(e)
        THEN /\ status' = invoke_assign(status, worst_level(s, e.code))
             /\ drStatus' = None
             /\ pc' = "do_upload"
             /\ observed' = Observe(e.code)
             /\ UNCHANGED <<exc, result>>
    ELSE /\ InvokeRaise(e)
         /\ UNCHANGED <<status, drStatus, observed>>

\* invoke, line 107: _run_cancellable(claim_work(context)).
invoke_claim ==
    /\ pc = "start"
    /\ IF run_cancellable_check
          THEN /\ InvokeRaise(CancelledError)
               /\ UNCHANGED <<future, claims>>
          ELSE /\ future' = Pending("claim", 0)
               /\ claims' = claims + 1
               /\ pc' = "await_claim"
               /\ UNCHANGED <<exc, result>>
    /\ UNCHANGED <<mainVars, is_cancelled, task_process, cancelCalls, tasks, cur,
                   status, drStatus, taskVars, procVars>>

\* invoke, lines 107-110 and 115-116: the claim call ended.
invoke_claimed ==
    /\ pc = "await_claim"
    /\ future.state \in {"done", "cancelled"}
    /\ \/ /\ future.state = "cancelled"
          /\ InvokeRaise(CancelledError)
          /\ UNCHANGED <<future, tasks, cur>>
       \/ /\ future.state = "done"
          /\ InvokeRaise(UnexpectedError)
          /\ UNCHANGED <<future, tasks, cur>>
       \/ /\ future.state = "done"
          /\ \E n \in 0..MaxTasks :
                /\ tasks' = n
                /\ IF n = 0
                      THEN IF run_cancellable_check
                              THEN /\ InvokeRaise(CancelledError)
                                   /\ future' = NoFuture
                                   /\ cur' = cur
                              ELSE /\ future' = Pending("sleep", 0)
                                   /\ pc' = "await_sleep"
                                   /\ UNCHANGED <<exc, result, cur>>
                      ELSE /\ future' = NoFuture
                           /\ cur' = 1
                           /\ pc' = "task_begin"
                           /\ UNCHANGED <<exc, result>>
    /\ UNCHANGED <<mainVars, is_cancelled, task_process, cancelCalls, status,
                   drStatus, claims, taskVars, procVars>>

\* invoke, lines 109-110: the idle-poll sleep ended.
invoke_slept ==
    /\ pc = "await_sleep"
    /\ \/ /\ future.state = "cancelled"
          /\ InvokeRaise(CancelledError)
          /\ UNCHANGED future
       \/ /\ future.state = "done"
          /\ future' = NoFuture
          /\ pc' = "returned" /\ result' = None /\ exc' = exc
    /\ UNCHANGED <<mainVars, is_cancelled, task_process, cancelCalls, tasks, cur,
                   status, drStatus, claims, taskVars, procVars>>

\* invoke, lines 117-119: prepare the task, start its lease renewal, call
\* do_run_task.
invoke_prepare ==
    /\ pc = "task_begin"
    /\ reclaim' = [reclaim EXCEPT ![cur] = "running"]
    /\ drStatus' = STATUSES["success"]
    /\ upstatus' = None /\ observed' = {} /\ cot' = NoExc /\ stageExc' = NoExc
    /\ pc' = "do_run_task"
    /\ UNCHANGED <<mainVars, tokenVars, tasks, cur, status, exc, result, claims,
                   rcCancels, completed, reported, cleaned, procVars>>

\* do_run_task, lines 50-54, with cancellable_verify_chain_of_trust 139-145.
do_run_task_enter ==
    /\ pc = "do_run_task"
    /\ IF ~verify_cot
          THEN /\ pc' = "run_task"
               /\ UNCHANGED <<future, cot, status, drStatus, exc, result, observed>>
       ELSE IF verify_entry_check
          THEN /\ cot' = verify_abort_exception
               /\ DoRunTaskEnd(drStatus, verify_abort_exception)
               /\ UNCHANGED future
       ELSE IF run_cancellable_check
          THEN /\ cot' = cancellable_verify_except(CancelledError)
               /\ DoRunTaskEnd(drStatus, cancellable_verify_except(CancelledError))
               /\ UNCHANGED future
       ELSE /\ future' = Pending("verify", cur)
            /\ pc' = "await_verify"
            /\ UNCHANGED <<cot, status, drStatus, exc, result, observed>>
    /\ UNCHANGED <<mainVars, is_cancelled, task_process, cancelCalls, tasks, cur,
                   claims, reclaim, rcCancels, completed, reported, upstatus,
                   cleaned, stageExc, procVars>>

\* What verify_chain_of_trust raises when it ends by itself.
VerifyOutcomes ==
    {OkExc, UnexpectedError} \cup {CoTError(c) : c \in FailureCodes}

\* cancellable_verify_chain_of_trust, lines 144-147, with _run_cancellable
\* 134-136 and do_run_task 54-63: the verification ended.
do_run_task_verified ==
    /\ pc = "await_verify"
    /\ future.state \in {"done", "cancelled"}
    /\ \E e \in (IF future.state = "cancelled" THEN {CancelledError}
                                               ELSE VerifyOutcomes) :
          /\ cot' = cancellable_verify_except(e)
          /\ stageExc' = e
          /\ future' = IF e.type = "ok" THEN NoFuture ELSE future
          /\ IF cancellable_verify_except(e).type = "ok"
                THEN /\ pc' = "run_task"
                     /\ UNCHANGED <<status, drStatus, exc, result, observed>>
                ELSE DoRunTaskEnd(drStatus, cancellable_verify_except(e))
    /\ UNCHANGED <<mainVars, is_cancelled, task_process, cancelCalls, tasks, cur,
                   claims, reclaim, rcCancels, completed, reported, upstatus,
                   cleaned, procVars>>

\* run_task: the task subprocess is created (or its creation fails).
run_task_spawn ==
    /\ pc = "run_task"
    /\ \/ /\ procState' = [procState EXCEPT ![cur] = "running"]
          /\ pc' = "await_spawn"
          /\ UNCHANGED <<status, drStatus, exc, result, observed, stageExc>>
       \/ /\ DoRunTaskEnd(drStatus, UnexpectedError)
          /\ stageExc' = UnexpectedError
          /\ UNCHANGED procState
    /\ UNCHANGED <<mainVars, tokenVars, tasks, cur, claims, reclaim, rcCancels,
                   completed, reported, upstatus, cot, cleaned, stopCount>>

\* to_cancellable_process, lines 150-155, called by run_task.
to_cancellable_process ==
    /\ pc = "await_spawn"
    /\ task_process' = cur
    /\ stopCount' = IF adopt_check
                       THEN [stopCount EXCEPT ![cur] = @ + 1]
                       ELSE stopCount
    /\ pc' = "await_proc"
    /\ UNCHANGED <<mainVars, is_cancelled, future, cancelCalls, tasks, cur, status,
                   drStatus, exc, result, claims, taskVars, procState>>

\* What run_task gives once the subprocess has exited.
RunTaskOutcomes ==
    {OkExc, UnexpectedError} \cup {ScriptWorkerException(c) : c \in FailureCodes}

\* do_run_task, line 55: run_task returned or raised.
run_task_wait ==
    /\ pc = "await_proc"
    /\ procState[cur] = "exited"
    /\ \E e \in RunTaskOutcomes :
          /\ stageExc' = e
          /\ IF e.type = "ok"
                THEN \E s \in StatusCodes :
                        /\ drStatus' = s
                        /\ observed' = Observe(s)
                        /\ pc' = "generate_cot"
                        /\ UNCHANGED <<status, exc, result>>
                ELSE DoRunTaskEnd(drStatus, e)
    /\ UNCHANGED <<mainVars, tokenVars, tasks, cur, claims, reclaim, rcCancels,
                   completed, reported, upstatus, cot, cleaned, procVars>>

\* What generate_cot raises.
GenerateCotOutcomes ==
    {OkExc, UnexpectedError} \cup {ScriptWorkerException(c) : c \in FailureCodes}

\* do_run_task, lines 56-63.
do_run_task_generate_cot ==
    /\ pc = "generate_cot"
    /\ \E e \in GenerateCotOutcomes :
          /\ stageExc' = e
          /\ DoRunTaskEnd(drStatus, e)
    /\ UNCHANGED <<mainVars, tokenVars, tasks, cur, claims, reclaim, rcCancels,
                   completed, reported, upstatus, cot, cleaned, procVars>>

\* do_upload, lines 82-84: upload_artifacts is awaited.
do_upload_start ==
    /\ pc = "do_upload"
    /\ pc' = "await_upload"
    /\ UNCHANGED <<mainVars, tokenVars, tasks, cur, status, drStatus, exc, result,
                   claims, taskVars, procVars>>

\* What upload_artifacts raises.
UploadOutcomes ==
    {OkExc, UnexpectedError, ClientError}
        \cup {ScriptWorkerException(c) : c \in FailureCodes}

\* do_upload, lines 82-94: the status it returns when upload_artifacts
\* ended with e (a recognized one).
do_upload_status(e) ==
    IF IsScriptWorkerException(e)
        THEN worst_level(STATUSES["success"], e.code)
    ELSE IF e.type = "ClientError"
        THEN worst_level(STATUSES["success"], STATUSES["intermittent-task"])
    ELSE STATUSES["success"]

\* invoke, line 120: the upload status is combined into the running status.
invoke_overwrite(s, u) == u
invoke_combine(s, u) == worst_level(s, u)

\* do_upload 84-94, then invoke 120-121: complete_task is called.
do_upload_end ==
    /\ pc = "await_upload"
    /\ \E e \in UploadOutcomes :
          /\ stageExc' = e
          /\ IF e.type \in {"ok", "ClientError"} \/ IsScriptWorkerException(e)
                THEN /\ upstatus' = do_upload_status(e)
                     /\ observed' = Observe(do_upload_status(e))
                     /\ status' = invoke_combine(status, do_upload_status(e))
                     /\ completed' = [completed EXCEPT ![cur] = @ + 1]
                     /\ reported' = status'
                     /\ pc' = "await_complete"
                     /\ UNCHANGED <<exc, result>>
                ELSE /\ InvokeRaise(e)
                     /\ UNCHANGED <<upstatus, observed, status, completed,
                                    reported>>
    /\ UNCHANGED <<mainVars, tokenVars, tasks, cur, drStatus, claims, reclaim,
                   rcCancels, cot, cleaned, procVars>>

\* invoke, line 122.
reclaim_cancel_skipped(rc, t) == rc
reclaim_cancel(rc, t) == [rc EXCEPT ![t] = "cancelled"]

\* invoke, lines 121-124 and the next turn of the for loop: complete_task
\* returned or raised.
invoke_completed ==
    /\ pc = "await_complete"
    /\ \/ /\ reclaim' = reclaim_cancel(reclaim, cur)
          /\ rcCancels' = [rcCancels EXCEPT ![cur] = @ + 1]
          /\ cleaned' = [cleaned EXCEPT ![cur] = @ + 1]
          /\ IF cur < tasks
                THEN /\ cur' = cur + 1
                     /\ pc' = "task_begin"
                     /\ UNCHANGED <<exc, result>>
                ELSE /\ pc' = "returned"
                     /\ result' = status
                     /\ UNCHANGED <<exc, cur>>
       \/ /\ InvokeRaise(UnexpectedError)
          /\ UNCHANGED <<reclaim, rcCancels, cleaned, cur>>
    /\ UNCHANGED <<mainVars, tokenVars, tasks, status, drStatus, claims, completed,
                   reported, upstatus, observed, cot, stageExc, procVars>>

\* ------------------------------------------------------------ environment
\* The operation wrapped by RunTasks.future finishes by itself.
FutureDone ==
    /\ future.state = "pending"
    /\ future' = [future EXCEPT !.state = "done"]
    /\ UNCHANGED <<mainVars, is_cancelled, task_process, cancelCalls, coVars,
                   taskVars, procVars>>

\* The task subprocess exits.
ProcExit ==
    /\ \E p \in Tasks :
          /\ procState[p] = "running"
          /\ procState' = [procState EXCEPT ![p] = "exited"]
    /\ UNCHANGED <<mainVars, tokenVars, coVars, taskVars, stopCount>>

\* A SIGTERM arrives: line 241 schedules a _handle_sigterm task.
Sigterm ==
    /\ mainPc \in {"loop", "scheduled", "run"}
    /\ sigSent < MaxSignals
    /\ sigSent' = sigSent + 1
    /\ sigQueued' = sigQueued + 1
    /\ UNCHANGED <<done, mainPc, iter, running_tasks, verify_cot, tokenVars,
                   coVars, taskVars, procVars>>

\* ------------------------------------------------------------------- main
\* main, lines 243-245: the loop test passes and run_until_complete
\* schedules async_main.
main_loop ==
    /\ mainPc = "loop"
    /\ ~done
    /\ iter < MaxIter
    /\ mainPc' = "scheduled"
    /\ UNCHANGED <<done, iter, sigSent, sigQueued, running_tasks, verify_cot,
                   tokenVars, coVars, taskVars, procVars>>

\* main, line 243: the loop test fails.
main_exit ==
    /\ mainPc = "loop"
    /\ done
    /\ mainPc' = "exited"
    /\ UNCHANGED <<done, iter, sigSent, sigQueued, running_tasks, verify_cot,
                   tokenVars, coVars, taskVars, procVars>>

\* async_main, then run_tasks lines 187-189: a new token is registered and
\* invoke is called.
run_tasks_start ==
    /\ mainPc = "scheduled"
    /\ mainPc' = "run"
    /\ iter' = iter + 1
    /\ running_tasks' = iter + 1
    /\ NewTokenNext /\ NewIterationNext
    /\ pc' = "start"
    /\ UNCHANGED <<done, sigSent, sigQueued, verify_cot, claims>>

\* run_tasks, lines 190-191: invoke returned.
run_tasks_return ==
    /\ mainPc = "run"
    /\ pc = "returned"
    /\ running_tasks' = 0
    /\ mainPc' = "loop"
    /\ UNCHANGED <<done, iter, sigSent, sigQueued, verify_cot, tokenVars, coVars,
                   taskVars, procVars>>

\* invoke raised: the exception leaves run_tasks (line 189), async_main and
\* main (lines 246-248).
main_fatal ==
    /\ mainPc = "run"
    /\ pc = "raised"
    /\ mainPc' = "fatal"
    /\ UNCHANGED <<done, iter, sigSent, sigQueued, running_tasks, verify_cot,
                   tokenVars, coVars, taskVars, procVars>>

\* main, lines 236-237: the value _handle_sigterm gives the flag.
sigterm_keeps_done == done
sigterm_sets_done == TRUE

\* main, lines 234-239: a scheduled _handle_sigterm task runs, while the
\* event loop runs and the foreground coroutine is not running.  A task that
\* was put on the ready queue in the last turn of one run_until_complete
\* runs at the start of the next one, before async_main's first step.
handle_sigterm ==
    /\ sigQueued > 0
    /\ \/ mainPc = "scheduled" /\ iter > 0
       \/ mainPc = "run" /\ pc \in Suspended
    /\ sigQueued' = sigQueued - 1
    /\ done' = sigterm_sets_done
    /\ IF running_tasks # 0
          THEN cancel
          ELSE UNCHANGED <<tokenVars, stopCount>>
    /\ UNCHANGED <<mainPc, iter, sigSent, running_tasks, verify_cot, coVars,
                   taskVars, procState>>

\* A caller that holds the token itself calls cancel(), before invoke or
\* while invoke is suspended.
cancel_direct ==
    /\ mainPc = "harness"
    /\ pc \in Suspended \cup {"start"}
    /\ cancelCalls < MaxCancels
    /\ cancel
    /\ UNCHANGED <<mainVars, coVars, taskVars, procState>>

\* --------------------------------------------------------- specifications
InvokeNext ==
    \/ invoke_claim
    \/ invoke_claimed
    \/ invoke_slept
    \/ invoke_prepare
    \/ do_run_task_enter
    \/ do_run_task_verified
    \/ run_task_spawn
    \/ to_cancellable_process
    \/ run_task_wait
    \/ do_run_task_generate_cot
    \/ do_upload_start
    \/ do_upload_end
    \/ invoke_completed
    \/ FutureDone
    \/ ProcExit

\* The worker process: main() from its first loop test.
Init ==
    /\ done = FALSE
    /\ mainPc = "loop"
    /\ iter = 0
    /\ sigSent = 0
    /\ sigQueued = 0
    /\ running_tasks = 0
    /\ verify_cot \in BOOLEAN
    /\ NewToken /\ NewIteration
    /\ pc = "idle"
    /\ claims = 0

Next ==
    \/ main_loop
    \/ main_exit
    \/ run_tasks_start
    \/ run_tasks_return
    \/ main_fatal
    \/ Sigterm
    \/ handle_sigterm
    \/ InvokeNext

Spec == Init /\ [][Next]_vars

\* One RunTasks token driven by a caller: RunTasks(), any cancel() calls,
\* one invoke(context).
TokenInit ==
    /\ done = FALSE
    /\ mainPc = "harness"
    /\ iter = 1
    /\ sigSent = 0
    /\ sigQueued = 0
    /\ running_tasks = 0
    /\ verify_cot \in BOOLEAN
    /\ NewToken /\ NewIteration
    /\ pc = "start"
    /\ claims = 0

TokenNext ==
    \/ cancel_direct
    \/ InvokeNext

SpecToken == TokenInit /\ [][TokenNext]_vars

\* The steps of the foreground coroutine (invoke and what it calls).
CoroutineNext ==
    \/ invoke_claim
    \/ invoke_claimed
    \/ invoke_slept
    \/ invoke_prepare
    \/ do_run_task_enter
    \/ do_run_task_verified
    \/ run_task_spawn
    \/ to_cancellable_process
    \/ run_task_wait
    \/ do_run_task_generate_cot
    \/ do_upload_start
    \/ do_upload_end
    \/ invoke_completed

\* The steps of main and run_tasks around invoke.
MainNext ==
    \/ main_loop
    \/ main_exit
    \/ run_tasks_start
    \/ run_tasks_return
    \/ main_fatal

\* A subprocess that has received a termination request exits.
ProcExitSignalled ==
    /\ \E p \in Tasks :
          /\ procState[p] = "running"
          /\ stopCount[p] > 0
          /\ procState' = [procState EXCEPT ![p] = "exited"]
    /\ UNCHANGED <<mainVars, tokenVars, coVars, taskVars, stopCount>>

\* The worker process under the scheduling its event loop gives: main and
\* the foreground coroutine take their next step when they can, an awaited
\* operation ends, a scheduled _handle_sigterm task runs at a suspension of
\* the foreground coroutine, and a subprocess asked to stop exits.  The
\* non-cancellable collaborator calls (upload, complete, cleanup) return
\* within a step of the coroutine.
SpecLive ==
    /\ Init /\ [][Next]_vars
    /\ WF_vars(MainNext)
    /\ WF_vars(CoroutineNext)
    /\ WF_vars(FutureDone)
    /\ SF_vars(handle_sigterm)
    /\ WF_vars(ProcExitSignalled)

\* ----------------------------------------------------------------- claims
\* C1: when invoke returns, with a status or with None (success, a
\* structured failure in execute or upload, a transport failure in upload,
\* cancellation of the token), every lease-renewal task it started has
\* been cancelled.
C1_RenewalCancelledOnReturn ==
    pc = "returned" => \A t \in Tasks : reclaim[t] # "running"

C1_Witness ==
    /\ pc = "returned"
    /\ is_cancelled
    /\ result = STATUSES["intermittent-task"]
    /\ \A t \in Tasks : reclaim[t] = "cancelled"

\* C2: on every way invoke can end, an unrecognized exception leaving it
\* included, every renewal task started in the iteration has been cancelled
\* exactly once.
C2_NoOrphanedRenewal ==
    pc \in {"returned", "raised"} =>
        \A t \in Tasks :
            /\ reclaim[t] # "running"
            /\ reclaim[t] = "cancelled" => rcCancels[t] = 1

\* C3: whenever run_tasks has handed control back to main (by a return or
\* by a raised failure), context.running_tasks is None.
C3_ActiveOrchestratorCleared ==
    mainPc \in {"loop", "scheduled", "exited", "fatal"} => running_tasks = 0

\* C4: a subprocess registered on a cancelled token has received the
\* termination request exactly once, however many cancel() calls there were.
C4_StopRequestedOnce ==
    \A p \in Tasks :
        /\ stopCount[p] <= 1
        /\ (task_process = p /\ is_cancelled) => stopCount[p] = 1

\* C5: when the token is already cancelled as invoke starts its first
\* stage, invoke returns None, raises nothing and starts no claim call.
C5_CancelledBeforeStart ==
    [][(pc = "start" /\ is_cancelled /\ pc' # "start") =>
          /\ pc' = "returned"
          /\ result' = None
          /\ exc' = NoExc
          /\ claims' = claims
          /\ future' = NoFuture]_vars

C5_Witness ==
    /\ mainPc = "harness"
    /\ pc = "returned"
    /\ is_cancelled
    /\ claims = 0
    /\ result = None

\* C6: trust verification that cancellation prevented (the token was
\* cancelled when cancellable_verify_chain_of_trust was entered) or
\* interrupted (cancel() hit the in-flight verification) ends with the
\* CoTError of worker-shutdown severity, never a raw CancelledError.
C6_VerifyAbortIsShutdownCoTError ==
    /\ []((/\ future.op = "verify"
           /\ future.state = "cancelled"
           /\ future.task = cur
           /\ pc # "await_verify")
          => cot = CoTError(STATUSES["worker-shutdown"]))
    /\ [][(pc = "do_run_task" /\ verify_cot /\ is_cancelled /\ pc' # pc)
          => cot' = CoTError(STATUSES["worker-shutdown"])]_vars

C6_Witness ==
    /\ future.op = "verify"
    /\ future.state = "cancelled"
    /\ future.task = 1
    /\ cur = 2
    /\ cot = CoTError(STATUSES["worker-shutdown"])

\* cancel() hit the verification while it was in flight.
VerifyInterrupted == future.op = "verify" /\ future.state = "cancelled"

\* C7: once the shutdown signal has interrupted an in-flight verification,
\* every status passed to complete_task and the status invoke returns are
\* the worker-shutdown tier, and no further iteration is started.
C7_ShutdownDuringVerification ==
    /\ [](VerifyInterrupted =>
            /\ done
            /\ (completed[cur] > 0 => reported = STATUSES["worker-shutdown"])
            /\ (pc = "returned" => result = STATUSES["worker-shutdown"]))
    /\ [][VerifyInterrupted => iter' = iter]_vars

C7_Witness ==
    /\ VerifyInterrupted
    /\ mainPc = "exited"
    /\ upstatus = STATUSES["intermittent-task"]
    /\ result = STATUSES["worker-shutdown"]

MostSevere(S) == CHOOSE s \in S : \A x \in S : s >= x

\* C8: the status passed to complete_task for a task is the most severe of
\* the statuses observed in its execute and upload stages.
C8_ReportedIsMostSevere ==
    (cur \in Tasks /\ completed[cur] > 0) => reported = MostSevere(observed)

C8_Witness ==
    /\ cur \in Tasks
    /\ completed[cur] > 0
    /\ reported = STATUSES["task-failure"]
    /\ upstatus = STATUSES["success"]
    /\ observed = {STATUSES["success"], STATUSES["task-failure"]}

\* C9: a running subprocess of a cancelled token has received a termination
\* request, unless its adoption (which sends one) is the very next step of
\* run_task.
C9_RunningSubprocessSignalled ==
    \A p \in Tasks :
        (procState[p] = "running" /\ is_cancelled /\ stopCount[p] = 0)
            => (pc = "await_spawn" /\ cur = p)

C9_Witness ==
    \E p \in Tasks :
        /\ procState[p] = "running"
        /\ task_process = p
        /\ is_cancelled
        /\ cancelCalls = 1
        /\ stopCount[p] = 1

\* C10: complete_task is called at most once per task, only for a prepared
\* task whose upload stage has ended, and exactly once for every prepared
\* task by the time invoke moves on to the next task or returns.
C10_CompletedExactlyOnce ==
    \A t \in Tasks :
        /\ completed[t] <= 1
        /\ completed[t] = 1 => reclaim[t] # "none"
        /\ (completed[t] = 1 /\ t = cur) => upstatus # None
        /\ (reclaim[t] # "none" /\ (pc = "returned" \/ t < cur))
              => completed[t] = 1

C10_Witness ==
    /\ pc = "returned"
    /\ is_cancelled
    /\ tasks = MaxTasks
    /\ \A t \in Tasks : completed[t] = 1
    /\ upstatus = STATUSES["intermittent-task"]

\* C11: an exception of the execute or upload stage that is neither a
\* ScriptWorkerException nor (in upload) an aiohttp.ClientError leaves invoke
\* as it is: no status is made of it, complete_task is not called for the
\* task, the exception reaches main, and nothing is claimed, completed or
\* iterated afterwards.
C11_UnexpectedIsFatal ==
    /\ [](stageExc = UnexpectedError =>
            /\ pc = "raised"
            /\ exc = UnexpectedError
            /\ result = None
            /\ completed[cur] = 0
            /\ mainPc \in {"run", "fatal"})
    /\ [][stageExc = UnexpectedError =>
            /\ iter' = iter
            /\ claims' = claims
            /\ completed' = completed
            /\ mainPc' \in {"run", "fatal"}]_vars

C11_Witness ==
    /\ stageExc = UnexpectedError
    /\ mainPc = "fatal"
    /\ cur = 2
    /\ procState[cur] = "exited"
    /\ completed[cur] = 0
    /\ ~done

\* C12 as stated: once cancel() has hit an in-flight claim call, idle-poll
\* sleep or trust verification, invoke returns None without running the
\* later stages.
C12_CancelAbortsIteration ==
    (future.state = "cancelled"
        /\ pc \notin {"await_claim", "await_sleep", "await_verify"})
    => (pc = "returned" /\ result = None /\ exc = NoExc)

\* C12 as amended: a cancelled claim call or idle-poll sleep makes invoke
\* return None with no later stage run; a cancelled trust verification skips
\* the task's execution only, its upload and completion still run and invoke
\* returns a status; a raw CancelledError never leaves invoke.
C12_CancelOutcome ==
    /\ exc.type # "CancelledError"
    /\ (future.state = "cancelled" /\ future.op \in {"claim", "sleep"}
            /\ pc \notin {"await_claim", "await_sleep"})
       => /\ pc = "returned"
          /\ result = None
          /\ \A t \in Tasks : reclaim[t] = "none" /\ procState[t] = "none"
    /\ (future.state = "cancelled" /\ future.op = "verify" /\ pc # "await_verify")
       => /\ procState[future.task] = "none"
          /\ pc = "returned" =>
                (result # None /\ \A t \in 1..tasks : completed[t] = 1)

C12_Witness ==
    /\ future.state = "cancelled"
    /\ future.op = "verify"
    /\ pc = "returned"
    /\ result # None
    /\ completed[1] = 1
    /\ procState[1] = "none"

\* C13 as stated: after invoke has returned None, no further iteration is
\* started.
C13_NoStatusStopsLoop ==
    [][(pc = "returned" /\ result = None) => iter' = iter]_vars

\* C13 as amended: after invoke has returned None because its token was
\* cancelled, no further iteration is started.
C13_CancelledNoStatusStopsLoop ==
    [][(pc = "returned" /\ result = None /\ is_cancelled) => iter' = iter]_vars

C13_Witness ==
    /\ pc = "returned"
    /\ result = None
    /\ is_cancelled
    /\ mainPc = "exited"
    /\ iter < MaxIter

\* C14: the tasks of one claim call run strictly one after another (while
\* task cur is in its stages, every earlier task has been completed, had its
\* renewal cancelled and been cleaned up, and no later task has been
\* started), and the status invoke returns is the combined status of the
\* last task alone.
C14_SequentialLastStatus ==
    /\ \A t \in Tasks :
          /\ t < cur => /\ completed[t] = 1
                        /\ reclaim[t] = "cancelled"
                        /\ cleaned[t] = 1
                        /\ procState[t] # "running"
          /\ t > cur => /\ completed[t] = 0
                        /\ reclaim[t] = "none"
                        /\ cleaned[t] = 0
                        /\ procState[t] = "none"
    /\ (pc = "returned" /\ result # None) =>
          /\ cur = tasks
          /\ result = reported
          /\ result = MostSevere(observed)

\* Two tasks were run; the first one failed its trust verification (so its
\* status was a failure), the second one succeeded, and invoke returns
\* success.
C14_Witness ==
    /\ pc = "returned"
    /\ tasks = 2
    /\ cur = 2
    /\ verify_cot
    /\ ~is_cancelled
    /\ completed[1] = 1
    /\ procState[1] = "none"
    /\ procState[2] = "exited"
    /\ result = STATUSES["success"]

\* C15: the cancelled flag of a token is monotonic: it is false until the
\* first cancel() of the token, and no step taken while the same token is in
\* use sets it back from true to false.
C15_CancelledMonotonic ==
    /\ [](cancelCalls = 0 => ~is_cancelled)
    /\ [][(is_cancelled /\ iter' = iter) => is_cancelled']_vars

\* A second cancel() has been made on a cancelled token.
C15_Witness ==
    /\ is_cancelled
    /\ cancelCalls = 2
    /\ pc \in Suspended

\* C16: RunTasks.future is non-empty only while a _run_cancellable call is
\* suspended awaiting the registered operation.
C16_FutureOnlyWhileAwaiting ==
    future # NoFuture =>
        /\ future.op = "claim" => pc = "await_claim"
        /\ future.op = "sleep" => pc = "await_sleep"
        /\ future.op = "verify" => pc = "await_verify"

\* C17: once the execute stage of a task has ended, nothing that happens
\* during upload or completion sends a termination request to a subprocess.
C17_NoStopAfterExecute ==
    [][(pc \in {"do_upload", "await_upload", "await_complete"})
          => (stopCount' = stopCount)]_vars

\* C18: with verify_chain_of_trust enabled, the subprocess of a task is
\* started only by run_task of that task after its trust verification has
\* ended successfully; while the verification has failed, was aborted by a
\* shutdown request before it began, or had its pending future cancelled,
\* the task has no subprocess.
C18_VerificationGatesExecution ==
    /\ [](verify_cot =>
            /\ (cur \in Tasks /\ cot \notin {NoExc, OkExc})
                  => procState[cur] = "none"
            /\ (future.op = "verify" /\ future.state # "done")
                  => procState[future.task] = "none"
            /\ (cur \in Tasks /\ pc \in {"task_begin", "do_run_task", "await_verify"})
                  => procState[cur] = "none")
    /\ [][\A t \in Tasks :
            (verify_cot /\ procState[t] = "none" /\ procState'[t] # "none")
               => /\ t = cur
                  /\ pc = "run_task"
                  /\ cot = OkExc
                  /\ stageExc = OkExc
                  /\ future = NoFuture]_vars

\* A shutdown request cancelled the pending verification of task 1: the task
\* was reported without a subprocess ever having been started for it.
C18_Witness ==
    /\ verify_cot
    /\ cur = 1
    /\ future = [op |-> "verify", task |-> 1, state |-> "cancelled"]
    /\ cot = verify_abort_exception
    /\ completed[1] = 1
    /\ procState[1] = "none"

\* C19: once _handle_sigterm has run (the shutdown flag is set), no new
\* claim call is started.
C19_NoClaimAfterShutdown ==
    [][done => (claims' = claims)]_vars

\* C20: once a shutdown request has been handled (the shutdown flag is
\* set), the run loop eventually exits.
C20_ShutdownEventuallyExits ==
    done ~> (mainPc \in {"exited", "fatal"})

=============================================================================
